---------------------------- MODULE Spec2Model ----------------------------
(* A model of persistent-bplus: the FreeList ring buffer                  *)
(* (pkg/store/free_list.go), the PageStore page cache and allocator       *)
(* (pkg/store/page_store.go) and the B+ tree lookup (pkg/bplus/bplus.go). *)
(*                                                                        *)
(* A page buffer is the function offset -> byte of its first BufLen       *)
(* bytes; every whole-page operation of the code (file read, file write,  *)
(* clearing) acts on all of them alike.  A *Page is the index of its      *)
(* cache slot.  File offsets are page aligned, so the file is the         *)
(* sequence of its pages.  uint32 products are reduced modulo 2^32.       *)
EXTENDS Integers, Sequences, FiniteSets, TLC

VARIABLES
    file,       \* PageStore.file: the pages of the backing file, in order
    cache,      \* PageStore.cache: slot -> [ID, Buf]
    lookup,     \* PageStore.lookup: PageID -> slot, for the resident pages
    freeList,   \* PageStore.freeList: the FreeList of unused cache slots
    header,     \* PageStore.header: the decoded header fields
    panicked,   \* TRUE once a call has panicked (the process is gone)
    ret,        \* the last call: its name, argument, results and the header before it
    lifo,       \* history: the pages freed and not yet reallocated, while the
                \* history is Allocate calls and Free calls of allocated pages
    allocRun,   \* history: the number of calls while they were all Allocate
                \* calls on a fresh store, else NoRun
    calls,      \* the number of calls made on the PageStore
    fl,         \* a FreeList used on its own
    enq,        \* history: the values fl accepted, in order
    deq,        \* history: the values fl returned, in order
    tree,       \* the Tree: its root branchPage and the last Read
    codec,      \* a page under the leaf and branch codecs, used on its own
    lock,       \* PageStore.Mutex: the goroutine that holds it, or NoProc
    procs,      \* goroutine -> the call it is in: the line it is at and its locals
    seeks,      \* history: the last two page addresses computed, newest first
    owned       \* history: the pages returned by Allocate and not passed to Free
                \* since, whether every Free call was given such a page, and the
                \* size of the store counted from the Allocate calls that grew it

storeVars == <<file, cache, lookup, freeList, header, panicked>>
histVars == <<ret, lifo, allocRun, calls>>
flVars == <<fl, enq, deq>>
auxVars == <<codec, lock, procs, seeks, owned>>
vars == <<file, cache, lookup, freeList, header, panicked, ret, lifo, allocRun,
          calls, fl, enq, deq, tree, codec, lock, procs, seeks, owned>>

-----------------------------------------------------------------------------
(* Program constants *)

PageSize == 4096
MagicNumber == 1245793093
\* 2^32 / PageSize: pageID * PageSize in uint32 is (pageID % PageIDWrap) * PageSize
PageIDWrap == 1048576

(* Bounds *)

CacheCapacity == 3     \* the cacheCapacity argument of NewPageStore
BufLen == 29           \* the leading bytes of a page that are modelled
MaxPageID == 3         \* the PageID arguments are 0..MaxPageID
MaxCalls == 4          \* the number of calls made on the PageStore
MaxAllocCalls == 6     \* the same, when the calls are Allocate and Free only
FLCapacity == 3        \* the capacity of the FreeList used on its own
MaxFLOps == 5          \* the number of values enqueued on it
MaxFLValue == 2        \* the values enqueued are 0..MaxFLValue
TreeCacheCapacity == 4 \* the cacheCapacity argument of NewTree
MaxKey == 2            \* the keys stored and read are 1..MaxKey
MaxLeaves == 2         \* the number of leaf pages added to the tree
MaxTreeCalls == 4      \* the number of Read and Release calls made on a tree
MaxDepth == 3          \* the levels a lookup descends
MaxValueLen == 2       \* the length of a Value given to the leaf codec
ShortReadLen == 1      \* the bytes a short read returns
NumProcs == 2          \* the goroutines that call the PageStore concurrently
MaxConcCalls == 4      \* the number of calls they make in all
MaxLockCalls == 2      \* the same, when the calls are of every kind
MaxWraps == 1          \* the PageIDs go up to MaxWraps * PageIDWrap + MaxPageID
MaxOwnedCalls == 8     \* the number of calls, when Free is given allocated pages only

PageIDs == 0..MaxPageID
Slots == 0..(CacheCapacity - 1)
NilPage == 0 - 1
NoRun == 0 - 1
Procs == 1..NumProcs
NoProc == 0

-----------------------------------------------------------------------------
(* Errors *)

nil == "nil"
EOF == "io.EOF"
ErrFreeListFull == "free list full"
ErrFreeListEmpty == "free list empty"
ErrPageCacheFull == "page cache full"
ErrPageNotFullyWritten == "page not fully written"
ErrPageNotFullyRead == "page not fully read"
ErrPageNotLoaded == "page not loaded"
ErrSeek == "seek error"
ErrRead == "read error"
Panic == "panic"
ShortRead == "short read"

-----------------------------------------------------------------------------
(* encoding/binary.LittleEndian over a page buffer *)

ZeroBuf == [i \in 0..(BufLen - 1) |-> 0]

Pow256(n) == IF n = 0 THEN 1 ELSE IF n = 1 THEN 256 ELSE IF n = 2 THEN 65536 ELSE 16777216

PutUint32(buf, off, v) ==
    [i \in DOMAIN buf |->
        IF i >= off /\ i < off + 4 THEN (v \div Pow256(i - off)) % 256 ELSE buf[i]]

Uint32(buf, off) ==
    buf[off] + 256 * buf[off + 1] + 65536 * buf[off + 2] + 16777216 * buf[off + 3]

\* uint32(id) * PageSize, in uint32
MulPageSize(id) == (id % PageIDWrap) * PageSize

-----------------------------------------------------------------------------
(* free_list.go *)

NewFreeList(capacity) ==
    [buf |-> [i \in 0..(capacity - 1) |-> 0], front |-> 0, back |-> 0, size |-> 0]

FLLen(f) == Cardinality(DOMAIN f.buf)

\* Dequeue taking the item at the back, the one enqueued last
DequeueBack(f) ==
    IF f.size = 0
    THEN [f |-> f, id |-> 0, err |-> ErrFreeListEmpty]
    ELSE [f |-> [f EXCEPT !.back = (f.back + FLLen(f) - 1) % FLLen(f), !.size = f.size - 1],
          id |-> f.buf[(f.back + FLLen(f) - 1) % FLLen(f)], err |-> nil]

Dequeue(f) ==
    IF f.size = 0
    THEN [f |-> f, id |-> 0, err |-> ErrFreeListEmpty]
    ELSE [f |-> [f EXCEPT !.front = (f.front + 1) % FLLen(f), !.size = f.size - 1],
          id |-> f.buf[f.front], err |-> nil]

\* Enqueue storing the item although the list is full
EnqueueOverwrite(f, id) ==
    IF f.size = FLLen(f)
    THEN [f |-> [f EXCEPT !.buf[f.back] = id], err |-> ErrFreeListFull]
    ELSE [f |-> [f EXCEPT !.buf[f.back] = id,
                          !.back = (f.back + 1) % FLLen(f),
                          !.size = f.size + 1],
          err |-> nil]

Enqueue(f, id) ==
    IF f.size = FLLen(f)
    THEN [f |-> f, err |-> ErrFreeListFull]
    ELSE [f |-> [f EXCEPT !.buf[f.back] = id,
                          !.back = (f.back + 1) % FLLen(f),
                          !.size = f.size + 1],
          err |-> nil]

-----------------------------------------------------------------------------
(* page_store.go.  A store value s is the PageStore struct: its fields    *)
(* file, cache, lookup, freeList and header.                              *)

\* the index in the file of the page that seekPageStart(pageID) seeks to
FilePageIndex(pageID) == MulPageSize(pageID) \div PageSize

\* file.Write of a whole page at page index idx: the file grows, with zero
\* pages in the gap, when idx is at or past its end
WriteAt(f, idx, buf) ==
    [i \in 1..(IF idx + 1 > Len(f) THEN idx + 1 ELSE Len(f)) |->
        IF i = idx + 1 THEN buf ELSE IF i <= Len(f) THEN f[i] ELSE ZeroBuf]

MapPut(m, k, v) == [q \in DOMAIN m \cup {k} |-> IF q = k THEN v ELSE m[q]]
MapDelete(m, k) == [q \in DOMAIN m \ {k} |-> m[q]]

headerFromBuffer(buf) ==
    [magicNumber |-> Uint32(buf, 0), freeList |-> Uint32(buf, 4), size |-> Uint32(buf, 8)]

\* headerToBuffer with the free-list pointer and the size in each other's place
headerToBufferSwapped(h, buf) ==
    PutUint32(PutUint32(PutUint32(buf, 0, h.magicNumber), 4, h.size), 8, h.freeList)

headerToBuffer(h, buf) ==
    PutUint32(PutUint32(PutUint32(buf, 0, h.magicNumber), 4, h.freeList), 8, h.size)

\* header.toBuffer(): the header's Page is &cache[0]
HeaderToCache(s) ==
    [s EXCEPT !.cache[0].Buf = headerToBuffer(s.header, s.cache[0].Buf)]

freePageFromBuffer(buf) == Uint32(buf, 0)
freePageToBuffer(nextFreePage, buf) == PutUint32(buf, 0, nextFreePage)

\* io is the outcome of the file system calls: "ok", ErrSeek (Seek fails),
\* ErrRead (Read fails having read nothing) or ShortRead (Read returns the
\* first ShortReadLen bytes of the page and no error)
loadPage(s, pageID, cacheID, io) ==
    IF io = ErrSeek THEN [s |-> s, err |-> ErrSeek]
    ELSE
      LET idx == FilePageIndex(pageID)
          atEOF == idx >= Len(s.file)
          n == IF io = ErrRead \/ atEOF THEN 0
               ELSE IF io = ShortRead THEN ShortReadLen ELSE PageSize
          rerr == IF io = ErrRead THEN ErrRead ELSE IF atEOF THEN EOF ELSE nil
          buf == IF n = PageSize THEN s.file[idx + 1]
                 ELSE IF n = 0 THEN s.cache[cacheID].Buf
                 ELSE [i \in 0..(BufLen - 1) |->
                          IF i < n THEN s.file[idx + 1][i] ELSE s.cache[cacheID].Buf[i]]
          s1 == [s EXCEPT !.cache[cacheID] = [ID |-> pageID, Buf |-> buf],
                          !.lookup = MapPut(s.lookup, pageID, cacheID)]
      IN  IF rerr = EOF THEN [s |-> s1, err |-> nil]
          ELSE IF rerr # nil THEN [s |-> s1, err |-> rerr]
          ELSE IF n # PageSize THEN [s |-> s1, err |-> ErrPageNotFullyRead]
          ELSE [s |-> s1, err |-> nil]

nextFreeCacheSlot(s) ==
    LET d == Dequeue(s.freeList)
    IN  [s |-> [s EXCEPT !.freeList = d.f], id |-> d.id,
         noMoreSpace |-> (d.err = ErrFreeListFull)]

\* the result's page is the slot the returned *Page points into
Load(s, pageID, io) ==
    LET \* &s.cache[pageID]: an index out of range panics
        Loaded(lp) ==
            IF lp.err # nil THEN [s |-> lp.s, page |-> NilPage, err |-> lp.err]
            ELSE IF pageID \notin DOMAIN lp.s.cache
                 THEN [s |-> lp.s, page |-> NilPage, err |-> Panic]
            ELSE [s |-> lp.s, page |-> pageID, err |-> nil]
        Missed(nf) ==
            IF nf.noMoreSpace THEN [s |-> nf.s, page |-> NilPage, err |-> ErrPageCacheFull]
            ELSE Loaded(loadPage(nf.s, pageID, nf.id, io))
    IN  IF pageID \in DOMAIN s.lookup
        THEN [s |-> s, page |-> s.lookup[pageID], err |-> nil]
        ELSE Missed(nextFreeCacheSlot(s))

releaseCacheSlot(s, cacheID) ==
    LET e == Enqueue(s.freeList, cacheID)
    IN  [s |-> [s EXCEPT !.freeList = e.f], err |-> e.err]

\* Release dropping the mapping without returning the slot to the free list
ReleaseKeepsSlot(s, pageID) ==
    IF pageID \notin DOMAIN s.lookup
    THEN [s |-> s, err |-> ErrPageNotLoaded]
    ELSE [s |-> [s EXCEPT !.lookup = MapDelete(s.lookup, pageID)], err |-> nil]

Release(s, pageID) ==
    IF pageID \notin DOMAIN s.lookup
    THEN [s |-> s, err |-> ErrPageNotLoaded]
    ELSE releaseCacheSlot([s EXCEPT !.lookup = MapDelete(s.lookup, pageID)],
                          s.lookup[pageID])

\* Write putting the buffer at the file offset of the page's cache slot
WriteAtSlot(s, pageID) ==
    IF pageID \notin DOMAIN s.lookup
    THEN [s |-> s, err |-> ErrPageNotLoaded]
    ELSE [s |-> [s EXCEPT !.file = WriteAt(s.file, s.lookup[pageID],
                                           s.cache[s.lookup[pageID]].Buf)],
          err |-> nil]

Write(s, pageID) ==
    IF pageID \notin DOMAIN s.lookup
    THEN [s |-> s, err |-> ErrPageNotLoaded]
    ELSE [s |-> [s EXCEPT !.file = WriteAt(s.file, FilePageIndex(pageID),
                                           s.cache[s.lookup[pageID]].Buf)],
          err |-> nil]

NilFreeList == [buf |-> [i \in {} |-> 0], front |-> 0, back |-> 0, size |-> 0]

\* the loop of NewPageStore that enqueues the slots id..capacity-1
RECURSIVE EnqueueSlots(_, _, _)
EnqueueSlots(f, id, capacity) ==
    IF id >= capacity THEN f ELSE EnqueueSlots(Enqueue(f, id).f, id + 1, capacity)

NewPageStore(file0, cacheCapacity) ==
    LET s0 == [file |-> file0,
               cache |-> [i \in 0..(cacheCapacity - 1) |-> [ID |-> 0, Buf |-> ZeroBuf]],
               lookup |-> [q \in {} |-> 0],
               freeList |-> NilFreeList,
               header |-> [magicNumber |-> 0, freeList |-> 0, size |-> 0]]
        WithSlots(s3) ==
            [s3 EXCEPT !.freeList = EnqueueSlots(NewFreeList(cacheCapacity), 1, cacheCapacity)]
        WithHeader(s2) ==
            IF s2.header.magicNumber # MagicNumber
            THEN WithSlots(Write(HeaderToCache(
                               [s2 EXCEPT !.header = [magicNumber |-> MagicNumber,
                                                      freeList |-> 0, size |-> 1]]),
                                 s2.cache[0].ID).s)
            ELSE WithSlots(s2)
        Loaded(s1) == WithHeader([s1 EXCEPT !.header = headerFromBuffer(s1.cache[0].Buf)])
    IN  Loaded(loadPage(s0, 0, 0, "ok").s)

allocateFromFreeList(s) ==
    LET firstFreePageID == s.header.freeList \div PageSize
        Written(w) == [s |-> w.s, id |-> firstFreePageID, err |-> w.err]
        WriteHeader(s1) == Written(Write(s1, s1.cache[0].ID))
        Loaded(ld) ==
            IF ld.err # nil THEN [s |-> ld.s, id |-> 0, err |-> ld.err]
            ELSE WriteHeader(HeaderToCache(
                     [ld.s EXCEPT !.header.freeList =
                                      freePageFromBuffer(ld.s.cache[ld.page].Buf)]))
    IN  IF s.header.freeList = 0 THEN [s |-> s, id |-> 0, err |-> Panic]
        ELSE Loaded(Load(s, firstFreePageID, "ok"))

allocateFromEndOfFile(s) ==
    LET nextFreePageID == s.header.size
        Written(w) ==
            IF w.err # nil THEN [s |-> w.s, id |-> 0, err |-> w.err]
            ELSE [s |-> w.s, id |-> nextFreePageID, err |-> nil]
        WriteHeader(s1) == Written(Write(s1, s1.cache[0].ID))
    IN  WriteHeader(HeaderToCache([s EXCEPT !.header.size = s.header.size + 1]))

Allocate(s) ==
    IF s.header.freeList # 0 THEN allocateFromFreeList(s) ELSE allocateFromEndOfFile(s)

\* Free taking the freed page off the size counter
FreeShrinks(s, id) ==
    LET currentFirstFreePage == s.header.freeList
        WriteHeader(w1, freeID) ==
            IF w1.err # nil THEN [s |-> w1.s, err |-> w1.err]
            ELSE Write(HeaderToCache([w1.s EXCEPT !.header.freeList = MulPageSize(id),
                                                  !.header.size = w1.s.header.size - 1]),
                       freeID)
        WriteFree(s1, freeID) == WriteHeader(Write(s1, freeID), freeID)
        Loaded(ld) ==
            IF ld.err # nil THEN [s |-> ld.s, err |-> ld.err]
            ELSE WriteFree([ld.s EXCEPT !.cache[ld.page].Buf =
                                            freePageToBuffer(currentFirstFreePage, ZeroBuf)],
                           ld.s.cache[ld.page].ID)
    IN  Loaded(Load(s, id, "ok"))

Free(s, id) ==
    LET currentFirstFreePage == s.header.freeList
        WriteHeader(w1, freeID) ==
            IF w1.err # nil THEN [s |-> w1.s, err |-> w1.err]
            ELSE Write(HeaderToCache([w1.s EXCEPT !.header.freeList = MulPageSize(id)]),
                       freeID)
        \* free.ID is the ID field of the Page that Load returned
        WriteFree(s1, freeID) == WriteHeader(Write(s1, freeID), freeID)
        Loaded(ld) ==
            IF ld.err # nil THEN [s |-> ld.s, err |-> ld.err]
            ELSE WriteFree([ld.s EXCEPT !.cache[ld.page].Buf =
                                            freePageToBuffer(currentFirstFreePage, ZeroBuf)],
                           ld.s.cache[ld.page].ID)
    IN  Loaded(Load(s, id, "ok"))

-----------------------------------------------------------------------------
(* The PageStore as a state machine: NewPageStore, then any sequence of   *)
(* Load, Write, Release, Allocate and Free calls by one caller.           *)

St == [file |-> file, cache |-> cache, lookup |-> lookup, freeList |-> freeList,
       header |-> header]

SetStore(s, err) ==
    /\ file' = s.file
    /\ cache' = s.cache
    /\ lookup' = s.lookup
    /\ freeList' = s.freeList
    /\ header' = s.header
    /\ panicked' = (err = Panic)

\* the files NewPageStore is given: a new (empty) file, a file whose page 0
\* is not a header, and the file of a store that has allocated page 1
NewFile == <<>>
OtherFile == <<[i \in 0..(BufLen - 1) |-> 1]>>
UsedFile ==
    <<headerToBuffer([magicNumber |-> MagicNumber, freeList |-> 0, size |-> 2], ZeroBuf)>>
InitialFiles == {NewFile, OtherFile, UsedFile}

\* the header fields a file carries before it is opened
FileHeader(f) == headerFromBuffer(IF Len(f) > 0 THEN f[1] ELSE ZeroBuf)

Dirty == [clean |-> FALSE, phase |-> "free", stack |-> <<>>]

Range(seq) == {seq[i] : i \in DOMAIN seq}

FLUnused == NewFreeList(FLCapacity)
NoRead == [key |-> 0, err |-> nil, val |-> <<>>, path |-> <<>>,
           empty |-> FALSE, wf |-> FALSE, expErr |-> nil, expVal |-> <<>>, expPath |-> <<>>]
TreeUnused == [page |-> NilPage, keys |-> <<>>, pointers |-> <<>>, read |-> NoRead]
CodecUnused == [tag |-> "none", prior |-> ZeroBuf, buf |-> ZeroBuf, records |-> <<>>,
                keys |-> <<>>, pointers |-> <<>>, decoded |-> FALSE,
                out |-> [ok |-> TRUE, records |-> <<>>, keys |-> <<>>, pointers |-> <<>>]]
\* no page has been allocated and no Free call made
NoneOwned == [ok |-> TRUE, pages |-> {}, size |-> header.size]

\* a goroutine outside any call
Idle == [pc |-> "idle", cs |-> FALSE, arg |-> NilPage, cur |-> 0, page |-> NilPage,
         key |-> 0]
AuxInit ==
    /\ codec = CodecUnused
    /\ lock = NoProc
    /\ procs = [p \in Procs |-> Idle]
    /\ seeks = <<>>
    /\ owned = NoneOwned

Init ==
    /\ \E f \in InitialFiles : \E s \in {NewPageStore(f, CacheCapacity)} :
          LET isNew == FileHeader(f).magicNumber # MagicNumber
          IN  /\ file = s.file
              /\ cache = s.cache
              /\ lookup = s.lookup
              /\ freeList = s.freeList
              /\ header = s.header
              /\ ret = [op |-> "NewPageStore", arg |-> NilPage, err |-> nil,
                        val |-> NilPage, pre |-> FileHeader(f),
                        exp |-> NilPage, expGrow |-> FALSE]
              /\ lifo = IF isNew THEN [clean |-> TRUE, phase |-> "free", stack |-> <<>>]
                        ELSE Dirty
              /\ allocRun = IF isNew THEN 0 ELSE NoRun
    /\ panicked = FALSE
    /\ calls = 0
    /\ fl = FLUnused /\ enq = <<>> /\ deq = <<>>
    /\ tree = TreeUnused
    /\ AuxInit

Ret(op, arg, err, val) ==
    [op |-> op, arg |-> arg, err |-> err, val |-> val, pre |-> header,
     exp |-> NilPage, expGrow |-> FALSE]

\* a call is made while the process lives and the model's bound allows
Call(limit) ==
    /\ ~panicked
    /\ calls < limit
    /\ calls' = calls + 1

DoLoad(pageID, limit) ==
    /\ Call(limit)
    /\ \E r \in {Load(St, pageID, "ok")} :
           /\ SetStore(r.s, r.err)
           /\ ret' = Ret("Load", pageID, r.err, r.page)
    /\ lifo' = Dirty /\ allocRun' = NoRun
    /\ UNCHANGED auxVars
    /\ UNCHANGED <<fl, enq, deq, tree>>

DoWrite(pageID, limit) ==
    /\ Call(limit)
    /\ \E r \in {Write(St, pageID)} :
           /\ SetStore(r.s, r.err)
           /\ ret' = Ret("Write", pageID, r.err, NilPage)
    /\ lifo' = Dirty /\ allocRun' = NoRun
    /\ UNCHANGED auxVars
    /\ UNCHANGED <<fl, enq, deq, tree>>

DoRelease(pageID, limit) ==
    /\ Call(limit)
    /\ \E r \in {Release(St, pageID)} :
           /\ SetStore(r.s, r.err)
           /\ ret' = Ret("Release", pageID, r.err, NilPage)
    /\ lifo' = Dirty /\ allocRun' = NoRun
    /\ UNCHANGED auxVars
    /\ UNCHANGED <<fl, enq, deq, tree>>

\* the history after Allocate has returned (id, err), from the end of the
\* file (grew) or from the free list
OwnedAfterAllocate(id, err, grew) ==
    IF err = nil
    THEN [owned EXCEPT !.pages = @ \cup {id}, !.size = IF grew THEN @ + 1 ELSE @]
    ELSE owned

\* the history after a call of Free(id)
OwnedAfterFree(id) ==
    IF id \in owned.pages THEN [owned EXCEPT !.pages = @ \ {id}]
    ELSE [owned EXCEPT !.ok = FALSE]

DoAllocate(limit) ==
    /\ Call(limit)
    /\ \E r \in {Allocate(St)} :
           /\ SetStore(r.s, r.err)
           /\ owned' = OwnedAfterAllocate(r.id, r.err, header.freeList = 0)
           /\ ret' = [Ret("Allocate", NilPage, r.err, r.id) EXCEPT
                         !.exp = IF ~lifo.clean THEN NilPage
                                 ELSE IF lifo.stack # <<>> THEN Head(lifo.stack)
                                 ELSE header.size,
                         !.expGrow = lifo.clean /\ lifo.stack = <<>>]
    /\ lifo' = IF ~lifo.clean THEN Dirty
               ELSE IF lifo.stack = <<>> THEN [lifo EXCEPT !.phase = "free"]
               ELSE [lifo EXCEPT !.phase = "alloc", !.stack = Tail(lifo.stack)]
    /\ allocRun' = IF allocRun = NoRun THEN NoRun ELSE allocRun + 1
    /\ UNCHANGED <<codec, lock, procs, seeks>>
    /\ UNCHANGED <<fl, enq, deq, tree>>

DoFree(id, limit) ==
    /\ Call(limit)
    /\ \E r \in {Free(St, id)} :
           /\ SetStore(r.s, r.err)
           /\ ret' = Ret("Free", id, r.err, NilPage)
           /\ lifo' = IF /\ lifo.clean
                         /\ lifo.phase = "free" \/ lifo.stack = <<>>
                         /\ id >= 1 /\ id < header.size
                         /\ id \notin Range(lifo.stack)
                         /\ r.err = nil
                      THEN [clean |-> TRUE, phase |-> "free", stack |-> <<id>> \o lifo.stack]
                      ELSE Dirty
    /\ allocRun' = NoRun
    /\ owned' = OwnedAfterFree(id)
    /\ UNCHANGED <<codec, lock, procs, seeks>>
    /\ UNCHANGED <<fl, enq, deq, tree>>

Next ==
    \/ \E pageID \in PageIDs : DoLoad(pageID, MaxCalls)
    \/ \E pageID \in PageIDs : DoWrite(pageID, MaxCalls)
    \/ \E pageID \in PageIDs : DoRelease(pageID, MaxCalls)
    \/ DoAllocate(MaxCalls)
    \/ \E id \in PageIDs : DoFree(id, MaxCalls)

Spec == Init /\ [][Next]_vars

\* the histories of Allocate and Free calls alone
NextAlloc ==
    \/ DoAllocate(MaxAllocCalls)
    \/ \E id \in PageIDs : DoFree(id, MaxAllocCalls)

SpecAlloc == Init /\ [][NextAlloc]_vars

-----------------------------------------------------------------------------
(* Properties of the PageStore *)

\* the header fields the file carries in its page 0
OnDiskHeader == FileHeader(file)

\* the slots a FreeList holds, front first
FLContents(f) == [i \in 1..f.size |-> f.buf[(f.front + i - 1) % FLLen(f)]]

\* C1: in a history of Allocate calls and of Free calls on distinct allocated
\* pages, started on a store with an empty free list, the Allocate calls that
\* follow Free(p1), ..., Free(pn) return pn, ..., p1 without growing the
\* file, and the Allocate after them returns the old size and grows it by one.
C1_LifoReuse ==
    (ret.op = "Allocate" /\ ret.exp # NilPage) =>
        /\ ret.err = nil
        /\ ret.val = ret.exp
        /\ header.size = ret.pre.size + (IF ret.expGrow THEN 1 ELSE 0)

\* C2: an Allocate called with the free-list pointer 0 returns the size the
\* header had, adds one to it and leaves the header persisted; the n-th of a
\* run of Allocate calls on a freshly initialized store returns n and leaves
\* size = n + 1.
C2_AllocateGrows ==
    /\ (ret.op = "Allocate" /\ ret.pre.freeList = 0) =>
          /\ ret.err = nil
          /\ ret.val = ret.pre.size
          /\ header.size = ret.pre.size + 1
          /\ OnDiskHeader = header
    /\ (allocRun # NoRun /\ allocRun > 0) =>
          /\ ret.err = nil
          /\ ret.val = allocRun
          /\ header.size = allocRun + 1

\* C4: a Load that succeeds returns the cache slot that the PageID -> slot
\* mapping registers for the page, and that slot carries the page's ID.
C4_LoadReturnsMappedSlot ==
    (ret.op = "Load" /\ ret.err = nil) =>
        /\ ret.arg \in DOMAIN lookup
        /\ ret.val = lookup[ret.arg]
        /\ cache[ret.val].ID = ret.arg

\* C5: a Load of a page that is not resident, called when the free-slot list
\* is empty, fails with ErrPageCacheFull and changes neither the mapping nor
\* any cache slot.
C5_CacheFullEvictsNothing ==
    [][(/\ calls' = calls + 1
        /\ ret'.op = "Load"
        /\ ret'.arg \notin DOMAIN lookup
        /\ freeList.size = 0)
          => (/\ ret'.err = ErrPageCacheFull
              /\ lookup' = lookup
              /\ cache' = cache)]_vars

\* C6: in every state PageID 0 is mapped to slot 0, slot 0 has ID 0 and its
\* bytes [0:12] encode the magic number, free-list pointer and size of the header.
C6_HeaderResident ==
    /\ 0 \in DOMAIN lookup
    /\ lookup[0] = 0
    /\ cache[0].ID = 0
    /\ headerFromBuffer(cache[0].Buf) = header

\* C7: after a successful Free of a page 1 <= pageID < size, the file's page
\* pageID holds the previous free-list pointer in bytes [0:4] and zeros
\* elsewhere, and the file's header equals the header in memory, whose
\* free-list pointer is pageID * PageSize.
C7_FreePersistsPageAndHeader ==
    (ret.op = "Free" /\ ret.err = nil /\ ret.arg >= 1 /\ ret.arg < ret.pre.size) =>
        /\ Len(file) > ret.arg
        /\ file[ret.arg + 1] = freePageToBuffer(ret.pre.freeList, ZeroBuf)
        /\ header.freeList = ret.arg * PageSize
        /\ OnDiskHeader = header

\* C8: no call makes header.size smaller; Free, and an Allocate called with
\* a nonzero free-list pointer, leave it as it was.
C8_SizeNeverDecreases ==
    ret.op # "NewPageStore" =>
        /\ header.size >= ret.pre.size
        /\ ret.op = "Free" => header.size = ret.pre.size
        /\ (ret.op = "Allocate" /\ ret.pre.freeList # 0) => header.size = ret.pre.size

\* C8 witness: an Allocate has reused a freed page of a store that had grown
C8_Witness ==
    /\ ret.op = "Allocate" /\ ret.pre.freeList # 0 /\ ret.err = nil
    /\ header.size > 2

\* C9: NewPageStore on a file whose page 0 lacks the magic number gives the
\* header magic = MagicNumber, freeList = 0, size = 1, in slot 0 as the
\* little-endian bytes [0:4], [4:8], [8:12], the same bytes in page 0 of the
\* file, only page 0 resident, and the slots 1..cacheCapacity-1 free.
C9_NewStoreHeader ==
    (ret.op = "NewPageStore" /\ ret.pre.magicNumber # MagicNumber) =>
        /\ header = [magicNumber |-> MagicNumber, freeList |-> 0, size |-> 1]
        /\ [i \in 0..11 |-> cache[0].Buf[i]] =
               [i \in 0..11 |-> CASE i = 0 -> 69 [] i = 1 -> 75 [] i = 2 -> 65
                                  [] i = 3 -> 74 [] i = 8 -> 1 [] OTHER -> 0]
        /\ Len(file) >= 1 /\ file[1] = cache[0].Buf
        /\ lookup = [q \in {0} |-> 0]
        /\ FLContents(freeList) = [i \in 1..(CacheCapacity - 1) |-> i]

\* C9 witness: a store opened on a file whose page 0 held other bytes
C9_Witness ==
    /\ ret.op = "NewPageStore"
    /\ ret.pre.magicNumber \notin {0, MagicNumber}
    /\ header.size = 1

\* C12: Release of a page that is not resident fails with ErrPageNotLoaded and
\* changes nothing; Release of a resident page succeeds, removes its mapping
\* and appends its slot to the free-slot list, leaving the other mappings, the
\* cache, the header and the file alone.
C12_ReleaseFreesSlot ==
    [][ret'.op = "Release" =>
          IF ret'.arg \notin DOMAIN lookup
          THEN /\ ret'.err = ErrPageNotLoaded
               /\ UNCHANGED <<file, cache, lookup, freeList, header>>
          ELSE /\ ret'.err = nil
               /\ lookup' = MapDelete(lookup, ret'.arg)
               /\ ret'.arg \notin DOMAIN lookup'
               /\ FLContents(freeList') = Append(FLContents(freeList), lookup[ret'.arg])
               /\ UNCHANGED <<file, cache, header>>]_vars

\* C12 witness: a page other than the header was loaded and then released, and
\* its slot is the one the next Load miss takes
C12_Witness ==
    /\ ret.op = "Release"
    /\ ret.err = nil
    /\ ret.arg # 0
    /\ freeList.size > 0
    /\ Dequeue(freeList).id \notin Range(lookup)

\* what a read of page p of file f yields: zeroes at or past the end of file
FilePage(f, p) == IF p < Len(f) THEN f[p + 1] ELSE ZeroBuf

\* C13: Write of a page that is not resident fails with ErrPageNotLoaded and
\* leaves the file and the cache as they were; Write of a resident page puts
\* the buffer of the page's cache slot at page index pageID of the file
\* (offset pageID * PageSize) and changes no other page of the file.
C13_WriteOnePage ==
    [][ret'.op = "Write" =>
          IF ret'.arg \notin DOMAIN lookup
          THEN /\ ret'.err = ErrPageNotLoaded
               /\ UNCHANGED <<file, cache, lookup, freeList, header>>
          ELSE /\ ret'.err = nil
               /\ Len(file') > ret'.arg
               /\ file'[ret'.arg + 1] = cache[lookup[ret'.arg]].Buf
               /\ \A p \in 0..(Len(file') - 1) :
                      p # ret'.arg => FilePage(file', p) = FilePage(file, p)
               /\ Len(file') >= Len(file)
               /\ UNCHANGED <<cache, lookup, freeList, header>>]_vars

\* C13 witness: page 2 was written past the end of a one-page file, from a
\* cache slot whose index is not 2
C13_Witness ==
    /\ ret.op = "Write"
    /\ ret.err = nil
    /\ ret.arg = 2
    /\ Len(file) = 3
    /\ lookup[2] # 2

\* C14: a Load that succeeds on an allocated page lying at or past the end of
\* the file yields a zero-filled buffer: the Page it returns is zero-filled,
\* and so is the cache slot the page is mapped to.
C14_UnwrittenPageIsZero ==
    [][(/\ ret'.op = "Load"
        /\ ret'.err = nil
        /\ ret'.arg >= 1
        /\ ret'.arg < header.size
        /\ ret'.arg >= Len(file))
       => /\ cache'[ret'.val].Buf = ZeroBuf
          /\ cache'[lookup'[ret'.arg]].Buf = ZeroBuf]_vars

\* following next-free offsets in the file from offset off reaches 0 without
\* visiting a page twice, through page-aligned offsets of pages below size
RECURSIVE ValidFreeList(_, _, _, _)
ValidFreeList(f, off, size, visited) ==
    IF off = 0 THEN TRUE
    ELSE /\ off % PageSize = 0
         /\ off \div PageSize < size
         /\ off \div PageSize \notin visited
         /\ ValidFreeList(f, freePageFromBuffer(FilePage(f, off \div PageSize)), size,
                          visited \cup {off \div PageSize})

\* C17: after any sequence of Allocate calls and of Free calls on distinct
\* allocated pages, the free list in the file, followed from the header's
\* free-list pointer (the one in memory and the one in page 0 of the file),
\* reaches offset 0 without visiting a page twice, and each page on it is a
\* page-aligned offset of a page below size.
C17_OnDiskFreeListValid ==
    (~panicked /\ lifo.clean) =>
        /\ ValidFreeList(file, header.freeList, header.size, {})
        /\ ValidFreeList(file, OnDiskHeader.freeList, OnDiskHeader.size, {})

\* Load with a file system that fails
DoLoadFault(pageID, io, limit) ==
    /\ Call(limit)
    /\ \E r \in {Load(St, pageID, io)} :
           /\ SetStore(r.s, r.err)
           /\ ret' = Ret("Load", pageID, r.err, r.page)
    /\ lifo' = Dirty /\ allocRun' = NoRun
    /\ UNCHANGED auxVars
    /\ UNCHANGED <<fl, enq, deq, tree>>

NextFault ==
    \/ \E pageID \in PageIDs : DoLoad(pageID, MaxCalls)
    \/ \E pageID \in PageIDs : \E io \in {ErrSeek, ErrRead, ShortRead} :
          DoLoadFault(pageID, io, MaxCalls)
    \/ \E pageID \in PageIDs : DoRelease(pageID, MaxCalls)

SpecFault == Init /\ [][NextFault]_vars

\* C18: a Load that fails with an I/O error or with ErrPageNotFullyRead leaves
\* the PageID -> slot mapping as it was, the requested page not mapped, and
\* the free-slot list as it was.
C18_FailedLoadKeepsBookkeeping ==
    [][(ret'.op = "Load" /\ ret'.err \in {ErrSeek, ErrRead, ErrPageNotFullyRead}) =>
          /\ lookup' = lookup
          /\ ret'.arg \notin DOMAIN lookup'
          /\ FLContents(freeList') = FLContents(freeList)]_vars

-----------------------------------------------------------------------------
(* The FreeList on its own: NewFreeList(FLCapacity), then any sequence of *)
(* Enqueue and Dequeue calls.                                             *)

InitFreeList ==
    /\ LET s == NewPageStore(NewFile, CacheCapacity)
       IN  /\ file = s.file
           /\ cache = s.cache
           /\ lookup = s.lookup
           /\ freeList = s.freeList
           /\ header = s.header
    /\ panicked = FALSE
    /\ ret = [op |-> "NewFreeList", arg |-> FLCapacity, err |-> nil, val |-> NilPage,
              pre |-> header, exp |-> NilPage, expGrow |-> FALSE]
    /\ lifo = Dirty /\ allocRun = NoRun /\ calls = 0
    /\ fl = NewFreeList(FLCapacity) /\ enq = <<>> /\ deq = <<>>
    /\ tree = TreeUnused
    /\ AuxInit

FLEnqueue(id) ==
    /\ Len(enq) < MaxFLOps
    /\ LET r == Enqueue(fl, id)
       IN  /\ fl' = r.f
           /\ enq' = IF r.err = nil THEN Append(enq, id) ELSE enq
           /\ ret' = [ret EXCEPT !.op = "Enqueue", !.arg = id, !.err = r.err,
                                 !.val = NilPage]
    /\ UNCHANGED auxVars
    /\ UNCHANGED <<storeVars, lifo, allocRun, calls, deq, tree>>

FLDequeue ==
    /\ LET r == Dequeue(fl)
       IN  /\ fl' = r.f
           /\ deq' = IF r.err = nil THEN Append(deq, r.id) ELSE deq
           /\ ret' = [ret EXCEPT !.op = "Dequeue", !.arg = NilPage, !.err = r.err,
                                 !.val = r.id]
    /\ UNCHANGED auxVars
    /\ UNCHANGED <<storeVars, lifo, allocRun, calls, enq, tree>>

NextFreeList ==
    \/ \E id \in 0..MaxFLValue : FLEnqueue(id)
    \/ FLDequeue

SpecFreeList == InitFreeList /\ [][NextFreeList]_vars

\* C10: the values the Dequeue calls have returned are, in order, the first
\* of the values the Enqueue calls have accepted, and the list holds the rest
\* in order, also once the ring buffer has wrapped around.
C10_FreeListFifo ==
    /\ Len(deq) <= Len(enq)
    /\ deq = SubSeq(enq, 1, Len(deq))
    /\ FLContents(fl) = SubSeq(enq, Len(deq) + 1, Len(enq))

\* C10 witness: more values than the capacity have gone through the list, two
\* different ones among those returned, and values are still queued
C10_Witness ==
    /\ Len(deq) > FLCapacity
    /\ deq[Len(deq)] # deq[Len(deq) - 1]
    /\ fl.size > 0

\* C11: Enqueue fails, with ErrFreeListFull, exactly when the list holds
\* capacity elements, Dequeue fails, with ErrFreeListEmpty, exactly when it
\* holds none, and a failing call leaves buf, front, back and size as they were.
C11_FreeListErrors ==
    [][/\ ret'.op = "Enqueue" =>
            /\ ret'.err = (IF Len(FLContents(fl)) = FLLen(fl) THEN ErrFreeListFull ELSE nil)
            /\ ret'.err # nil => fl' = fl
       /\ ret'.op = "Dequeue" =>
            /\ ret'.err = (IF Len(FLContents(fl)) = 0 THEN ErrFreeListEmpty ELSE nil)
            /\ ret'.err # nil => fl' = fl]_vars

\* C11 witness: an Enqueue has failed on a full list whose ring has wrapped
C11_Witness ==
    /\ ret.op = "Enqueue"
    /\ ret.err = ErrFreeListFull
    /\ fl.front # 0
    /\ Len(deq) > 0

-----------------------------------------------------------------------------
(* bplus.go: the page codecs.  A Record is [Key, Value], a Value a         *)
(* sequence of bytes.  A decoder that needs bytes past the modelled part   *)
(* of the page reports ok = FALSE.                                         *)

ErrKeyNotFound == "key not found"

ErrNotImplemented == "not implemented"

isLeafPage(buf) == buf[0] = 1

PutBytes(buf, off, value) ==
    [i \in DOMAIN buf |->
        IF i >= off /\ i < off + Len(value) THEN value[i - off + 1] ELSE buf[i]]

\* keyToBuffer then valueToBuffer, for each record in turn
RECURSIVE PutRecords(_, _, _)
PutRecords(buf, current, records) ==
    IF records = <<>> THEN buf
    ELSE LET r == Head(records)
             b1 == PutUint32(buf, current, r.Key)
             b2 == PutBytes(PutUint32(b1, current + 4, Len(r.Value)), current + 8, r.Value)
         IN  PutRecords(b2, current + 4 + 4 + Len(r.Value), Tail(records))

\* leafPage.toBuffer without the store of the tag byte
leafToBufferKeepsTag(buf, records) ==
    PutRecords(PutUint32(buf, 1, Len(records)), 5, records)

leafToBuffer(buf, records) ==
    PutRecords(PutUint32([buf EXCEPT ![0] = 1], 1, Len(records)), 5, records)

\* keyFromBuffer then valueFromBuffer, n times
RECURSIVE ReadRecords(_, _, _)
ReadRecords(buf, current, n) ==
    IF n = 0 THEN [ok |-> TRUE, records |-> <<>>]
    ELSE IF current + 8 > BufLen THEN [ok |-> FALSE, records |-> <<>>]
    ELSE LET key == Uint32(buf, current)
             valueLen == Uint32(buf, current + 4)
         IN  IF current + 8 + valueLen > BufLen THEN [ok |-> FALSE, records |-> <<>>]
             ELSE LET value == [i \in 1..valueLen |-> buf[current + 8 + i - 1]]
                      rest == ReadRecords(buf, current + 8 + valueLen, n - 1)
                  IN  [ok |-> rest.ok,
                       records |-> <<[Key |-> key, Value |-> value]>> \o rest.records]

leafFromBuffer(buf) == ReadRecords(buf, 5, Uint32(buf, 1))

PutKeys(buf, current, keys) ==
    [i \in DOMAIN buf |->
        IF i >= current /\ i < current + 4 * Len(keys)
        THEN (keys[((i - current) \div 4) + 1] \div Pow256((i - current) % 4)) % 256
        ELSE buf[i]]

branchToBuffer(buf, keys, pointers) ==
    LET b1 == PutUint32([buf EXCEPT ![0] = 0], 1, Len(keys))
        b2 == PutKeys(b1, 5, keys)
        b3 == PutUint32(b2, 5 + 4 * Len(keys), Len(pointers))
    IN  PutKeys(b3, 5 + 4 * Len(keys) + 4, pointers)

branchFromBuffer(buf) ==
    LET numKeys == Uint32(buf, 1)
        bad == [ok |-> FALSE, keys |-> <<>>, pointers |-> <<>>]
    IN  IF numKeys > BufLen \/ 5 + 4 * numKeys + 4 > BufLen THEN bad
        ELSE LET afterKeys == 5 + 4 * numKeys
                 numPointers == Uint32(buf, afterKeys)
             IN  IF numPointers > BufLen \/ afterKeys + 4 + 4 * numPointers > BufLen
                 THEN bad
                 ELSE [ok |-> TRUE,
                       keys |-> [i \in 1..numKeys |-> Uint32(buf, 5 + 4 * (i - 1))],
                       pointers |-> [i \in 1..numPointers |->
                                        Uint32(buf, afterKeys + 4 + 4 * (i - 1))]]

\* the bytes a leaf and a branch take in a page
RECURSIVE RecordsSize(_)
RecordsSize(records) ==
    IF records = <<>> THEN 0
    ELSE 4 + 4 + Len(Head(records).Value) + RecordsSize(Tail(records))
LeafSize(records) == 5 + RecordsSize(records)
BranchSize(keys, pointers) == 5 + 4 * Len(keys) + 4 + 4 * Len(pointers)

-----------------------------------------------------------------------------
(* bplus.go: the Tree.  A root value is the Tree's root branchPage: the   *)
(* slot of its Page, its keys and its pointers.                           *)

SetMin(S) == CHOOSE x \in S : \A y \in S : x <= y

\* the index into branch.pointers that search takes for key
ChildIndex(keys, numPointers, key) ==
    IF key < keys[1] THEN 0
    ELSE LET later == {i \in 1..(Len(keys) - 1) : key < keys[i + 1]}
         IN  IF later # {} THEN SetMin(later) ELSE numPointers - 1

\* fuel bounds the recursion; an index out of range panics
RECURSIVE search(_, _, _, _)
search(s, key, node, fuel) ==
    LET crash(s1) == [s |-> s1, err |-> Panic, records |-> <<>>, path |-> <<>>]
        Leaf(leaf) ==
            IF leaf.ok
            THEN [s |-> s, err |-> nil, records |-> leaf.records, path |-> <<>>]
            ELSE crash(s)
        Below(childPageID, r) == [r EXCEPT !.path = <<childPageID>> \o r.path]
        Child(childPageID, ld) ==
            IF ld.err # nil THEN [crash(ld.s) EXCEPT !.err = ld.err]
            ELSE IF fuel = 0 THEN crash(ld.s)
            ELSE Below(childPageID, search(ld.s, key, ld.page, fuel - 1))
        Pointer(pointers, idx) ==
            IF idx < 0 \/ idx >= Len(pointers) THEN crash(s)
            ELSE Child(pointers[idx + 1], Load(s, pointers[idx + 1], "ok"))
        Branch(branch) ==
            IF ~branch.ok \/ Len(branch.keys) = 0 THEN crash(s)
            ELSE Pointer(branch.pointers,
                         ChildIndex(branch.keys, Len(branch.pointers), key))
    IN  IF isLeafPage(s.cache[node].Buf)
        THEN Leaf(leafFromBuffer(s.cache[node].Buf))
        ELSE Branch(branchFromBuffer(s.cache[node].Buf))

Read(s, root, key) ==
    LET Value(sr, hits) ==
            IF hits = {}
            THEN [s |-> sr.s, err |-> ErrKeyNotFound, val |-> <<>>, path |-> sr.path]
            ELSE [s |-> sr.s, err |-> nil, val |-> sr.records[SetMin(hits)].Value,
                  path |-> sr.path]
        Found(sr) ==
            IF sr.err # nil
            THEN [s |-> sr.s, err |-> sr.err, val |-> <<>>, path |-> sr.path]
            ELSE Value(sr, {i \in DOMAIN sr.records : sr.records[i].Key = key})
    IN  IF Len(root.keys) = 0
        THEN [s |-> s, err |-> ErrKeyNotFound, val |-> <<>>, path |-> <<>>]
        ELSE Found(search(s, key, root.page, MaxDepth))

\* Tree.Insert with an allocation of the page the record would go to
InsertAllocates(s, root, key, value) ==
    [s |-> Allocate(s).s, root |-> root, err |-> ErrNotImplemented]

Insert(s, root, key, value) == [s |-> s, root |-> root, err |-> ErrNotImplemented]

Delete(s, root, key) == [s |-> s, root |-> root, err |-> ErrNotImplemented]

\* NewTree: NewPageStore, then allocateRootNode
NewTree(file0, cacheCapacity) ==
    LET Loaded(ld) ==
            [s |-> ld.s, root |-> [page |-> ld.page, keys |-> <<>>, pointers |-> <<>>]]
        Allocated(a) == Loaded(Load(a.s, a.id, "ok"))
    IN  Allocated(Allocate(NewPageStore(file0, cacheCapacity)))

-----------------------------------------------------------------------------
(* What a lookup has to return: the tree as its pages' contents.          *)

\* the content of page p: its cache slot when resident, else the file
Content(s, p) ==
    IF p \in DOMAIN s.lookup THEN s.cache[s.lookup[p]].Buf
    ELSE IF FilePageIndex(p) < Len(s.file) THEN s.file[FilePageIndex(p) + 1]
    ELSE ZeroBuf

Ascending(keys) == \A i \in 1..(Len(keys) - 1) : keys[i] < keys[i + 1]

\* the keys that pointer i (1..K+1) of a branch over [lo, hi) leads to
ChildLo(keys, i, lo) == IF i = 1 THEN lo ELSE keys[i - 1]
ChildHi(keys, i, hi) == IF i = Len(keys) + 1 THEN hi ELSE keys[i]

RECURSIVE WellFormedNode(_, _, _, _, _)
WellFormedNode(s, buf, lo, hi, fuel) ==
    LET Leaf(leaf) ==
            /\ leaf.ok
            /\ Ascending([i \in DOMAIN leaf.records |-> leaf.records[i].Key])
            /\ \A i \in DOMAIN leaf.records :
                   leaf.records[i].Key >= lo /\ leaf.records[i].Key < hi
        Branch(branch) ==
            /\ fuel > 0
            /\ branch.ok
            /\ Len(branch.keys) >= 1
            /\ Len(branch.pointers) = Len(branch.keys) + 1
            /\ Ascending(branch.keys)
            /\ \A i \in DOMAIN branch.keys : branch.keys[i] >= lo /\ branch.keys[i] < hi
            /\ \A i \in DOMAIN branch.pointers :
                   /\ branch.pointers[i] >= 1
                   /\ branch.pointers[i] < s.header.size
                   /\ WellFormedNode(s, Content(s, branch.pointers[i]),
                                     ChildLo(branch.keys, i, lo),
                                     ChildHi(branch.keys, i, hi), fuel - 1)
    IN  IF isLeafPage(buf) THEN Leaf(leafFromBuffer(buf)) ELSE Branch(branchFromBuffer(buf))

WellFormedTree(s, root) ==
    /\ Len(root.keys) >= 1
    /\ root.page \in DOMAIN s.cache
    /\ s.cache[root.page].ID \in DOMAIN s.lookup
    /\ s.lookup[s.cache[root.page].ID] = root.page
    /\ ~isLeafPage(s.cache[root.page].Buf)
    /\ branchFromBuffer(s.cache[root.page].Buf) =
           [ok |-> TRUE, keys |-> root.keys, pointers |-> root.pointers]
    /\ WellFormedNode(s, s.cache[root.page].Buf, 0, MaxKey + 1, MaxDepth)

\* the pointer at the smallest index i with key < keys[i], else the last
RoutedChild(keys, pointers, key) ==
    LET above == {i \in DOMAIN keys : key < keys[i]}
    IN  IF above = {} THEN pointers[Len(pointers)] ELSE pointers[SetMin(above)]

RECURSIVE Stored(_, _, _)
Stored(s, buf, key) ==
    LET Leaf(records, hits) ==
            IF hits = {} THEN [err |-> ErrKeyNotFound, val |-> <<>>, path |-> <<>>]
            ELSE [err |-> nil, val |-> records[SetMin(hits)].Value, path |-> <<>>]
        Records(records) == Leaf(records, {i \in DOMAIN records : records[i].Key = key})
        Below(child, r) == [r EXCEPT !.path = <<child>> \o r.path]
        Child(child) == Below(child, Stored(s, Content(s, child), key))
        Branch(branch) == Child(RoutedChild(branch.keys, branch.pointers, key))
    IN  IF isLeafPage(buf) THEN Records(leafFromBuffer(buf).records)
        ELSE Branch(branchFromBuffer(buf))

-----------------------------------------------------------------------------
(* The tree as a state machine: a tree is built by hand as the test does  *)
(* (allocate a page, load it, fill its buffer), pages are written and     *)
(* released, and keys are read.                                           *)

\* a leaf's records: Key k carries the one-byte Value k + ValueOffset
ValueOffset == 10
RECURSIVE RecordsOf(_)
RecordsOf(keySet) ==
    IF keySet = {} THEN <<>>
    ELSE <<[Key |-> SetMin(keySet), Value |-> <<SetMin(keySet) + ValueOffset>>]>>
         \o RecordsOf(keySet \ {SetMin(keySet)})

InitTree ==
    /\ \E t \in {NewTree(NewFile, TreeCacheCapacity)} :
           /\ file = t.s.file
           /\ cache = t.s.cache
           /\ lookup = t.s.lookup
           /\ freeList = t.s.freeList
           /\ header = t.s.header
           /\ tree = [page |-> t.root.page, keys |-> t.root.keys,
                      pointers |-> t.root.pointers, read |-> NoRead]
    /\ panicked = FALSE
    /\ ret = [op |-> "NewTree", arg |-> TreeCacheCapacity, err |-> nil, val |-> NilPage,
              pre |-> header, exp |-> NilPage, expGrow |-> FALSE]
    /\ lifo = Dirty /\ allocRun = NoRun /\ calls = 0
    /\ fl = FLUnused /\ enq = <<>> /\ deq = <<>>
    /\ AuxInit

\* Allocate a page, Load it, fill the returned Page as a leaf, Write it
AddLeaf(keySet) ==
    /\ ~panicked
    /\ header.size < MaxLeaves + 2
    /\ LeafSize(RecordsOf(keySet)) <= BufLen
    /\ LET Done(s, id, err, page) == SetStore(s, err) /\ ret' = Ret("AddLeaf", id, err, page)
           Written(a, ld, w) == Done(w.s, a.id, w.err, ld.page)
           Filled(ld) ==
               [ld.s EXCEPT !.cache[ld.page].Buf =
                                leafToBuffer(ld.s.cache[ld.page].Buf, RecordsOf(keySet))]
           Loaded(a, ld) ==
               IF ld.err # nil THEN Done(ld.s, a.id, ld.err, NilPage)
               ELSE Written(a, ld, Write(Filled(ld), a.id))
           Allocated(a) ==
               IF a.err # nil THEN Done(a.s, a.id, a.err, NilPage)
               ELSE Loaded(a, Load(a.s, a.id, "ok"))
       IN  Allocated(Allocate(St))
    /\ UNCHANGED auxVars
    /\ UNCHANGED <<lifo, allocRun, calls, fl, enq, deq, tree>>

\* root.keys, root.pointers = ...; root.toBuffer(), once
SetRoot(keys, pointers) ==
    /\ ~panicked
    /\ Len(tree.keys) = 0
    /\ BranchSize(keys, pointers) <= BufLen
    /\ tree' = [tree EXCEPT !.keys = keys, !.pointers = pointers]
    /\ cache' = [cache EXCEPT ![tree.page].Buf = branchToBuffer(@, keys, pointers)]
    /\ ret' = Ret("SetRoot", NilPage, nil, NilPage)
    /\ UNCHANGED auxVars
    /\ UNCHANGED <<file, lookup, freeList, header, panicked, lifo, allocRun, calls,
                   fl, enq, deq>>

TreeRead(key) ==
    /\ Call(MaxTreeCalls)
    /\ \E r \in {Read(St, tree, key)} : \E wf \in {WellFormedTree(St, tree)} :
       \E want \in {IF wf THEN Stored(St, cache[tree.page].Buf, key)
                    ELSE [err |-> nil, val |-> <<>>, path |-> <<>>]} :
           /\ SetStore(r.s, r.err)
           /\ ret' = Ret("Read", key, r.err, NilPage)
           /\ tree' = [tree EXCEPT !.read =
                  [key |-> key, err |-> r.err, val |-> r.val, path |-> r.path,
                   empty |-> (Len(tree.keys) = 0), wf |-> wf,
                   expErr |-> want.err, expVal |-> want.val, expPath |-> want.path]]
    /\ UNCHANGED auxVars
    /\ UNCHANGED <<lifo, allocRun, fl, enq, deq>>

NextTree ==
    \/ \E keySet \in SUBSET (1..MaxKey) : AddLeaf(keySet)
    \/ \E k \in 1..MaxKey : \E p, q \in 2..(MaxLeaves + 1) :
          p # q /\ p < header.size /\ q < header.size /\ SetRoot(<<k>>, <<p, q>>)
    \/ \E pageID \in 1..(MaxLeaves + 1) : DoRelease(pageID, MaxTreeCalls)
    \/ \E key \in 1..MaxKey : TreeRead(key)

SpecTree == InitTree /\ [][NextTree]_vars

\* C3: Read on a well-formed tree returns the value stored under the key, or
\* ErrKeyNotFound when the leaf the key routes to does not hold it, descending
\* through the pointer at the smallest index i with key < keys[i] (else the last
\* pointer); Read on a tree whose root has no keys returns ErrKeyNotFound.
C3_ReadFindsKey ==
    /\ tree.read.empty => tree.read.err = ErrKeyNotFound
    /\ tree.read.wf => /\ tree.read.err = tree.read.expErr
                       /\ tree.read.val = tree.read.expVal
                       /\ tree.read.path = tree.read.expPath

TreeInsert(key, value) ==
    /\ ~panicked
    /\ \E r \in {Insert(St, tree, key, value)} :
           /\ SetStore(r.s, r.err)
           /\ tree' = [tree EXCEPT !.page = r.root.page, !.keys = r.root.keys,
                                   !.pointers = r.root.pointers]
           /\ ret' = Ret("Insert", key, r.err, NilPage)
    /\ UNCHANGED auxVars
    /\ UNCHANGED <<lifo, allocRun, calls, fl, enq, deq>>

TreeDelete(key) ==
    /\ ~panicked
    /\ \E r \in {Delete(St, tree, key)} :
           /\ SetStore(r.s, r.err)
           /\ tree' = [tree EXCEPT !.page = r.root.page, !.keys = r.root.keys,
                                   !.pointers = r.root.pointers]
           /\ ret' = Ret("Delete", key, r.err, NilPage)
    /\ UNCHANGED auxVars
    /\ UNCHANGED <<lifo, allocRun, calls, fl, enq, deq>>

\* the trees built by hand, with Insert and Delete calls on them
NextTreeUpdate ==
    \/ \E keySet \in SUBSET (1..MaxKey) : AddLeaf(keySet)
    \/ \E k \in 1..MaxKey : \E p, q \in 2..(MaxLeaves + 1) :
          p # q /\ p < header.size /\ q < header.size /\ SetRoot(<<k>>, <<p, q>>)
    \/ \E key \in 0..(MaxKey + 1) : \E value \in {<<>>, <<key + ValueOffset>>} :
          TreeInsert(key, value)
    \/ \E key \in 0..(MaxKey + 1) : TreeDelete(key)

SpecTreeUpdate == InitTree /\ [][NextTreeUpdate]_vars

\* C16: every Insert and every Delete call returns the not-implemented error
\* and leaves the tree's root, the header, the PageID -> slot mapping, the
\* free slots, the cached pages and the file as they were.
C16_InsertDeleteNotImplemented ==
    [][ret'.op \in {"Insert", "Delete"} =>
          /\ ret'.err = ErrNotImplemented
          /\ UNCHANGED <<file, cache, lookup, freeList, header, tree>>]_vars

C16_Witness ==
    /\ ret.op = "Insert"
    /\ ret.arg = MaxKey + 1
    /\ Len(tree.keys) = 1
    /\ header.size = MaxLeaves + 2

-----------------------------------------------------------------------------
(* The codecs on their own: a page that holds some bytes is encoded as a  *)
(* leaf or as a branch, and decoded back.                                 *)

CodecBytes == {0, 255}
CodecKeys == {0, 258, 16777217}
CodecPointers == {0, 1, 513}
Values == UNION {[1..n -> CodecBytes] : n \in 0..MaxValueLen}

RECURSIVE SeqOf(_)
SeqOf(S) == IF S = {} THEN <<>> ELSE <<SetMin(S)>> \o SeqOf(S \ {SetMin(S)})

\* the records of a leaf: unique ascending keys, each with its Value
LeafRecords(valueOf) ==
    [i \in 1..Cardinality(DOMAIN valueOf) |->
        [Key |-> SeqOf(DOMAIN valueOf)[i], Value |-> valueOf[SeqOf(DOMAIN valueOf)[i]]]]

OnesBuf == [i \in 0..(BufLen - 1) |-> 255]

\* what the page held before: a fresh page, other bytes, a leaf, a branch
PriorBufs ==
    {ZeroBuf, OnesBuf,
     leafToBuffer(OnesBuf, <<[Key |-> 258, Value |-> <<255, 255>>]>>),
     branchToBuffer(OnesBuf, <<258>>, <<1, 513>>)}

InitCodec ==
    /\ \E s \in {NewPageStore(NewFile, CacheCapacity)} :
           /\ file = s.file
           /\ cache = s.cache
           /\ lookup = s.lookup
           /\ freeList = s.freeList
           /\ header = s.header
           /\ ret = [op |-> "NewPageStore", arg |-> NilPage, err |-> nil, val |-> NilPage,
                     pre |-> s.header, exp |-> NilPage, expGrow |-> FALSE]
    /\ panicked = FALSE
    /\ lifo = Dirty /\ allocRun = NoRun /\ calls = 0
    /\ fl = FLUnused /\ enq = <<>> /\ deq = <<>>
    /\ tree = TreeUnused
    /\ \E b \in PriorBufs : codec = [CodecUnused EXCEPT !.prior = b, !.buf = b]
    /\ lock = NoProc
    /\ procs = [p \in Procs |-> Idle]
    /\ seeks = <<>>
    /\ owned = NoneOwned

\* leafPage.toBuffer
EncodeLeaf(records) ==
    /\ codec.tag = "none"
    /\ LeafSize(records) <= BufLen
    /\ codec' = [codec EXCEPT !.tag = "leaf", !.records = records,
                              !.buf = leafToBuffer(@, records)]
    /\ UNCHANGED <<storeVars, histVars, flVars, tree, lock, procs, seeks, owned>>

\* leafPage.fromBuffer
DecodeLeaf ==
    /\ codec.tag = "leaf"
    /\ ~codec.decoded
    /\ \E d \in {leafFromBuffer(codec.buf)} :
           codec' = [codec EXCEPT !.decoded = TRUE, !.out.ok = d.ok,
                                  !.out.records = d.records]
    /\ UNCHANGED <<storeVars, histVars, flVars, tree, lock, procs, seeks, owned>>

\* branchPage.toBuffer
EncodeBranch(keys, pointers) ==
    /\ codec.tag = "none"
    /\ BranchSize(keys, pointers) <= BufLen
    /\ codec' = [codec EXCEPT !.tag = "branch", !.keys = keys, !.pointers = pointers,
                              !.buf = branchToBuffer(@, keys, pointers)]
    /\ UNCHANGED <<storeVars, histVars, flVars, tree, lock, procs, seeks, owned>>

\* branchPage.fromBuffer
DecodeBranch ==
    /\ codec.tag = "branch"
    /\ ~codec.decoded
    /\ \E d \in {branchFromBuffer(codec.buf)} :
           codec' = [codec EXCEPT !.decoded = TRUE, !.out.ok = d.ok,
                                  !.out.keys = d.keys, !.out.pointers = d.pointers]
    /\ UNCHANGED <<storeVars, histVars, flVars, tree, lock, procs, seeks, owned>>

NextCodec ==
    \/ \E keySet \in SUBSET CodecKeys : \E valueOf \in [keySet -> Values] :
          EncodeLeaf(LeafRecords(valueOf))
    \/ DecodeLeaf
    \/ \E keySet \in SUBSET CodecKeys :
          \E pointers \in [1..(Cardinality(keySet) + 1) -> CodecPointers] :
              EncodeBranch(SeqOf(keySet), pointers)
    \/ DecodeBranch

SpecCodec == InitCodec /\ [][NextCodec]_vars

\* C15: decoding what was encoded gives back the same ordered records of a leaf
\* (unique ascending keys, values of any length) and the same keys and pointers
\* of a branch (K keys, K+1 pointers) that fit in the page, whatever bytes the
\* page held before; after a leaf encode isLeafPage is true, after a branch
\* encode it is false.
C15_CodecRoundTrip ==
    /\ codec.tag = "leaf" => isLeafPage(codec.buf)
    /\ codec.tag = "branch" => ~isLeafPage(codec.buf)
    /\ (codec.decoded /\ codec.tag = "leaf") =>
           /\ codec.out.ok
           /\ codec.out.records = codec.records
    /\ (codec.decoded /\ codec.tag = "branch") =>
           /\ codec.out.ok
           /\ codec.out.keys = codec.keys
           /\ codec.out.pointers = codec.pointers

C15_Witness ==
    /\ codec.decoded
    /\ codec.tag = "leaf"
    /\ codec.prior = OnesBuf
    /\ Len(codec.records) = 2
    /\ Len(codec.records[2].Value) = 2

-----------------------------------------------------------------------------
(* Concurrent callers.  A goroutine runs one call at a time; pc is the    *)
(* line of page_store.go it is about to execute.  Load, Write and Release *)
(* are two steps each: s.Lock(), then the body with the deferred          *)
(* s.Unlock().  The header accesses of Allocate and Free take no lock;    *)
(* each is a step of its own.  A panic ends the program.  Free is called  *)
(* on allocated pages.                                                    *)

\* the lines at which a goroutine calls s.Lock()
LockPCs ==
    {"AF245", "AF257", "AE278", "F288", "F301", "F307", "L118", "W180", "R164", "TR100"}

At(p, pc) == ~panicked /\ procs[p].pc = pc /\ ~procs[p].cs
InCS(p, pc) == ~panicked /\ procs[p].pc = pc /\ procs[p].cs /\ lock = p

Goto(p, pc) == procs' = [procs EXCEPT ![p].pc = pc, ![p].cs = FALSE]

Return(p, op, arg, err, val) ==
    /\ procs' = [procs EXCEPT ![p] = Idle]
    /\ ret' = Ret(op, arg, err, val)

\* the program dies: the panicking goroutine stays where it is
Crash(p, op, pc) ==
    /\ procs' = [procs EXCEPT ![p].pc = pc, ![p].cs = FALSE]
    /\ ret' = Ret(op, procs[p].arg, Panic, NilPage)

CallFrame == UNCHANGED <<lifo, allocRun, fl, enq, deq, tree, codec, seeks>>

ConcFrame == CallFrame /\ UNCHANGED owned

CallAllocate(p, limit) ==
    /\ At(p, "idle")
    /\ calls < limit
    /\ calls' = calls + 1
    /\ Goto(p, "A234")
    /\ UNCHANGED <<storeVars, ret, lock>>
    /\ ConcFrame

CallFree(p, id, limit) ==
    /\ At(p, "idle")
    /\ calls < limit
    /\ calls' = calls + 1
    /\ procs' = [procs EXCEPT ![p].pc = "F287", ![p].arg = id]
    /\ owned' = OwnedAfterFree(id)
    /\ UNCHANGED <<storeVars, ret, lock>>
    /\ CallFrame

\* s.Lock()
Acquire(p) ==
    /\ ~panicked
    /\ procs[p].pc \in LockPCs
    /\ ~procs[p].cs
    /\ lock = NoProc
    /\ lock' = p
    /\ procs' = [procs EXCEPT ![p].cs = TRUE]
    /\ UNCHANGED <<storeVars, ret, calls>>
    /\ ConcFrame

\* Allocate: if s.header.freeList != 0
A234(p) ==
    /\ At(p, "A234")
    /\ Goto(p, IF header.freeList # 0 THEN "AF241" ELSE "AE275")
    /\ UNCHANGED <<storeVars, ret, lock, calls>>
    /\ ConcFrame

\* allocateFromFreeList: the check that panics, then firstFreePageID
AF241(p) ==
    /\ At(p, "AF241")
    /\ IF header.freeList = 0
       THEN /\ Crash(p, "Allocate", "panic242")
            /\ panicked' = TRUE
            /\ UNCHANGED <<file, cache, lookup, freeList, header>>
       ELSE /\ procs' = [procs EXCEPT ![p].pc = "AF245",
                                      ![p].arg = header.freeList \div PageSize]
            /\ UNCHANGED <<storeVars, ret>>
    /\ UNCHANGED <<lock, calls>>
    /\ ConcFrame

\* the body of a Load call made by Allocate or Free, and its s.Unlock()
LoadInside(p, pc, op, next) ==
    /\ InCS(p, pc)
    /\ \E r \in {Load(St, procs[p].arg, "ok")} :
           /\ SetStore(r.s, r.err)
           /\ IF r.err = Panic THEN Crash(p, op, "panic132")
              ELSE IF r.err # nil THEN Return(p, op, procs[p].arg, r.err, NilPage)
              ELSE /\ procs' = [procs EXCEPT ![p].pc = next, ![p].cs = FALSE,
                                             ![p].page = r.page]
                   /\ UNCHANGED ret
    /\ lock' = NoProc
    /\ UNCHANGED calls
    /\ ConcFrame

AF245(p) == LoadInside(p, "AF245", "Allocate", "AF252")

\* free.fromBuffer(); s.header.freeList = free.nextFreePage; s.header.toBuffer()
AF252(p) ==
    /\ At(p, "AF252")
    /\ SetStore(HeaderToCache([St EXCEPT !.header.freeList =
                                  freePageFromBuffer(cache[procs[p].page].Buf)]), nil)
    /\ Goto(p, "AF257")
    /\ UNCHANGED <<ret, lock, calls>>
    /\ ConcFrame

\* the body of s.Write(s.header.ID) that ends Allocate, and its s.Unlock()
WriteHeaderInside(p, pc) ==
    /\ InCS(p, pc)
    /\ \E w \in {Write(St, cache[0].ID)} :
           /\ SetStore(w.s, w.err)
           /\ Return(p, "Allocate", NilPage, w.err, IF w.err = nil THEN procs[p].arg ELSE 0)
           /\ owned' = OwnedAfterAllocate(procs[p].arg, w.err, pc = "AE278")
    /\ lock' = NoProc
    /\ UNCHANGED calls
    /\ CallFrame

AF257(p) == WriteHeaderInside(p, "AF257")

\* allocateFromEndOfFile: nextFreePageID := PageID(s.header.size)
AE275(p) ==
    /\ At(p, "AE275")
    /\ procs' = [procs EXCEPT ![p].pc = "AE276", ![p].arg = header.size]
    /\ UNCHANGED <<storeVars, ret, lock, calls>>
    /\ ConcFrame

\* s.header.size++, outside the lock: the read of the field
AE276(p) ==
    /\ At(p, "AE276")
    /\ procs' = [procs EXCEPT ![p].pc = "AE276w", ![p].cur = header.size]
    /\ UNCHANGED <<storeVars, ret, lock, calls>>
    /\ ConcFrame

\* s.header.size++: the write of the field; s.header.toBuffer()
AE276w(p) ==
    /\ At(p, "AE276w")
    /\ SetStore(HeaderToCache([St EXCEPT !.header.size = procs[p].cur + 1]), nil)
    /\ Goto(p, "AE278")
    /\ UNCHANGED <<ret, lock, calls>>
    /\ ConcFrame

AE278(p) == WriteHeaderInside(p, "AE278")

\* Free: currentFirstFreePage := s.header.freeList
F287(p) ==
    /\ At(p, "F287")
    /\ procs' = [procs EXCEPT ![p].pc = "F288", ![p].cur = header.freeList]
    /\ UNCHANGED <<storeVars, ret, lock, calls>>
    /\ ConcFrame

F288(p) == LoadInside(p, "F288", "Free", "F293")

\* clear the buffer; free.toBuffer()
F293(p) ==
    /\ At(p, "F293")
    /\ SetStore([St EXCEPT !.cache[procs[p].page].Buf =
                               freePageToBuffer(procs[p].cur, ZeroBuf)], nil)
    /\ Goto(p, "F301")
    /\ UNCHANGED <<ret, lock, calls>>
    /\ ConcFrame

\* the body of the first s.Write(free.ID), and its s.Unlock()
F301(p) ==
    /\ InCS(p, "F301")
    /\ \E w \in {Write(St, cache[procs[p].page].ID)} :
           /\ SetStore(w.s, w.err)
           /\ IF w.err # nil THEN Return(p, "Free", procs[p].arg, w.err, NilPage)
              ELSE Goto(p, "F305") /\ UNCHANGED ret
    /\ lock' = NoProc
    /\ UNCHANGED calls
    /\ ConcFrame

\* s.header.freeList = uint32(id) * PageSize; s.header.toBuffer()
F305(p) ==
    /\ At(p, "F305")
    /\ SetStore(HeaderToCache([St EXCEPT !.header.freeList = MulPageSize(procs[p].arg)]), nil)
    /\ Goto(p, "F307")
    /\ UNCHANGED <<ret, lock, calls>>
    /\ ConcFrame

\* the body of the last s.Write(free.ID), and its s.Unlock()
F307(p) ==
    /\ InCS(p, "F307")
    /\ \E w \in {Write(St, cache[procs[p].page].ID)} :
           /\ SetStore(w.s, w.err)
           /\ Return(p, "Free", procs[p].arg, w.err, NilPage)
    /\ lock' = NoProc
    /\ UNCHANGED calls
    /\ ConcFrame

\* a step of a goroutine inside Allocate or Free
AllocFreeStep(p) ==
    \/ Acquire(p)
    \/ A234(p)
    \/ AF241(p)
    \/ AF245(p)
    \/ AF252(p)
    \/ AF257(p)
    \/ AE275(p)
    \/ AE276(p)
    \/ AE276w(p)
    \/ AE278(p)
    \/ F287(p)
    \/ F288(p)
    \/ F293(p)
    \/ F301(p)
    \/ F305(p)
    \/ F307(p)

NextConc ==
    \/ \E p \in Procs : CallAllocate(p, MaxConcCalls)
    \/ \E p \in Procs : \E id \in 1..MaxPageID :
          id < header.size /\ CallFree(p, id, MaxConcCalls)
    \/ \E p \in Procs : AllocFreeStep(p)

SpecConc == Init /\ [][NextConc]_vars

\* C19: in no interleaving of concurrent Allocate and Free calls does
\* allocateFromFreeList run with the header's free-list pointer at 0, the
\* case in which it panics.
C19_FreeListPanicUnreachable ==
    \A p \in Procs : procs[p].pc # "panic242"

-----------------------------------------------------------------------------
(* Concurrent callers of every operation, on a tree built by one          *)
(* goroutine before the others start.                                     *)

CallLoad(p, pageID, limit) ==
    /\ At(p, "idle")
    /\ calls < limit
    /\ calls' = calls + 1
    /\ procs' = [procs EXCEPT ![p].pc = "L118", ![p].arg = pageID]
    /\ UNCHANGED <<storeVars, ret, lock>>
    /\ ConcFrame

CallWrite(p, pageID, limit) ==
    /\ At(p, "idle")
    /\ calls < limit
    /\ calls' = calls + 1
    /\ procs' = [procs EXCEPT ![p].pc = "W180", ![p].arg = pageID]
    /\ UNCHANGED <<storeVars, ret, lock>>
    /\ ConcFrame

CallRelease(p, pageID, limit) ==
    /\ At(p, "idle")
    /\ calls < limit
    /\ calls' = calls + 1
    /\ procs' = [procs EXCEPT ![p].pc = "R164", ![p].arg = pageID]
    /\ UNCHANGED <<storeVars, ret, lock>>
    /\ ConcFrame

CallRead(p, key, limit) ==
    /\ At(p, "idle")
    /\ calls < limit
    /\ calls' = calls + 1
    /\ procs' = [procs EXCEPT ![p].pc = "TR63", ![p].key = key]
    /\ UNCHANGED <<storeVars, ret, lock>>
    /\ ConcFrame

\* the body of Load, and its s.Unlock()
L118(p) ==
    /\ InCS(p, "L118")
    /\ \E r \in {Load(St, procs[p].arg, "ok")} :
           /\ SetStore(r.s, r.err)
           /\ IF r.err = Panic THEN Crash(p, "Load", "panic132")
              ELSE Return(p, "Load", procs[p].arg, r.err, r.page)
    /\ lock' = NoProc
    /\ UNCHANGED calls
    /\ ConcFrame

\* the body of Write, and its s.Unlock()
W180(p) ==
    /\ InCS(p, "W180")
    /\ \E w \in {Write(St, procs[p].arg)} :
           /\ SetStore(w.s, w.err)
           /\ Return(p, "Write", procs[p].arg, w.err, NilPage)
    /\ lock' = NoProc
    /\ UNCHANGED calls
    /\ ConcFrame

\* the body of Release, and its s.Unlock()
R164(p) ==
    /\ InCS(p, "R164")
    /\ \E r \in {Release(St, procs[p].arg)} :
           /\ SetStore(r.s, r.err)
           /\ Return(p, "Release", procs[p].arg, r.err, NilPage)
    /\ lock' = NoProc
    /\ UNCHANGED calls
    /\ ConcFrame

\* Tree.Read: if len(tree.root.keys) == 0; else search(key, tree.root.Page)
TR63(p) ==
    /\ At(p, "TR63")
    /\ IF Len(tree.keys) = 0
       THEN Return(p, "Read", procs[p].key, ErrKeyNotFound, NilPage)
       ELSE /\ procs' = [procs EXCEPT ![p].pc = "TR79", ![p].page = tree.page]
            /\ UNCHANGED ret
    /\ UNCHANGED <<storeVars, lock, calls>>
    /\ ConcFrame

\* Tree.search on node: a leaf ends the descent and Read looks the key up;
\* a branch gives the child to load; an index out of range panics
TR79(p) ==
    /\ At(p, "TR79")
    /\ LET buf == cache[procs[p].page].Buf
           Leaf(leaf) ==
               IF ~leaf.ok
               THEN Crash(p, "Read", "panic156") /\ panicked' = TRUE
               ELSE /\ Return(p, "Read", procs[p].key,
                              IF \E i \in DOMAIN leaf.records :
                                     leaf.records[i].Key = procs[p].key
                              THEN nil ELSE ErrKeyNotFound, NilPage)
                    /\ UNCHANGED panicked
           Pointer(pointers, idx) ==
               IF idx < 0 \/ idx >= Len(pointers)
               THEN Crash(p, "Read", "panic88") /\ panicked' = TRUE
               ELSE /\ procs' = [procs EXCEPT ![p].pc = "TR100",
                                              ![p].arg = pointers[idx + 1]]
                    /\ UNCHANGED <<ret, panicked>>
           Branch(branch) ==
               IF ~branch.ok \/ Len(branch.keys) = 0
               THEN Crash(p, "Read", "panic87") /\ panicked' = TRUE
               ELSE Pointer(branch.pointers,
                            ChildIndex(branch.keys, Len(branch.pointers), procs[p].key))
       IN  IF isLeafPage(buf) THEN Leaf(leafFromBuffer(buf))
           ELSE Branch(branchFromBuffer(buf))
    /\ UNCHANGED <<file, cache, lookup, freeList, header, lock, calls>>
    /\ ConcFrame

\* Tree.search: the body of tree.store.Load(childPageID), and its s.Unlock()
TR100(p) == LoadInside(p, "TR100", "Read", "TR79")

\* a step of a goroutine inside a call
ProcStep(p) ==
    \/ AllocFreeStep(p)
    \/ L118(p)
    \/ W180(p)
    \/ R164(p)
    \/ TR63(p)
    \/ TR79(p)
    \/ TR100(p)

\* the pages the concurrent Load, Write, Release and Free calls are given
LockPageIDs == {2, TreeCacheCapacity}

NextLock ==
    \/ \E k \in 1..MaxKey : calls = 0 /\ AddLeaf({k})
    \/ \E k \in 1..MaxKey : \E q, r \in 2..(MaxLeaves + 1) :
          /\ calls = 0
          /\ q # r /\ q < header.size /\ r < header.size
          /\ SetRoot(<<k>>, <<q, r>>)
    \/ \E p \in Procs : \E pageID \in LockPageIDs : CallLoad(p, pageID, MaxLockCalls)
    \/ \E p \in Procs : \E pageID \in LockPageIDs : CallWrite(p, pageID, MaxLockCalls)
    \/ \E p \in Procs : \E pageID \in LockPageIDs : CallRelease(p, pageID, MaxLockCalls)
    \/ \E p \in Procs : CallAllocate(p, MaxLockCalls)
    \/ \E p \in Procs : \E id \in LockPageIDs :
          id < header.size /\ CallFree(p, id, MaxLockCalls)
    \/ \E p \in Procs : \E key \in 1..MaxKey : CallRead(p, key, MaxLockCalls)
    \/ \E p \in Procs : ProcStep(p)

\* the Go scheduler runs every runnable goroutine, and a sync.Mutex hands the
\* lock to a goroutine that keeps waiting for it (starvation mode)
FairLock ==
    \A p \in Procs : WF_vars(ProcStep(p)) /\ SF_vars(Acquire(p))

SpecLock == InitTree /\ [][NextLock]_vars /\ FairLock

\* the lock is held only inside the body of a Load, Write or Release call,
\* and a goroutine about to call s.Lock() does not hold it
LockHeldInBodyOnly ==
    \A p \in Procs :
        /\ lock = p => (procs[p].cs /\ procs[p].pc \in LockPCs)
        /\ (procs[p].pc \in LockPCs /\ ~procs[p].cs) => lock # p
        /\ procs[p].cs => lock = p

\* C20: the store lock is held only inside the body of a Load, Write or
\* Release call and is never requested by the goroutine that holds it, and
\* under fair scheduling every Load, Write, Release, Allocate, Free and
\* Tree.Read call that was issued returns.
C20_EveryCallReturns ==
    /\ []LockHeldInBodyOnly
    /\ \A p \in Procs : (procs[p].pc # "idle") ~> (procs[p].pc = "idle")

-----------------------------------------------------------------------------
(* Page addresses on their own: the byte offset seekPageStart seeks to    *)
(* and the free-list pointer Free stores, for PageIDs on both sides of    *)
(* the values at which the uint32 product wraps.                          *)

\* PageIDs below PageIDWrap and at and above its multiples
WidePageIDs ==
    PageIDs \cup {w * PageIDWrap + i : w \in 1..MaxWraps, i \in PageIDs}

\* pageAddr := pageID * PageSize
seekPageStart(pageID) == MulPageSize(pageID)

\* s.header.freeList = uint32(id) * PageSize
freeListPointer(id) == MulPageSize(id)

InitSeek ==
    /\ LET s == NewPageStore(NewFile, CacheCapacity)
       IN  /\ file = s.file
           /\ cache = s.cache
           /\ lookup = s.lookup
           /\ freeList = s.freeList
           /\ header = s.header
    /\ panicked = FALSE
    /\ ret = [op |-> "NewPageStore", arg |-> NilPage, err |-> nil, val |-> NilPage,
              pre |-> header, exp |-> NilPage, expGrow |-> FALSE]
    /\ lifo = Dirty /\ allocRun = NoRun /\ calls = 0
    /\ fl = FLUnused /\ enq = <<>> /\ deq = <<>>
    /\ tree = TreeUnused
    /\ AuxInit

\* the address just computed, followed by the one computed before it
Seek(op, id, off) ==
    /\ seeks' = <<[op |-> op, id |-> id, off |-> off]>> \o
                    (IF seeks = <<>> THEN <<>> ELSE <<seeks[1]>>)
    /\ UNCHANGED <<storeVars, histVars, flVars, tree, codec, lock, procs, owned>>

SeekPageStart(pageID) == Seek("seekPageStart", pageID, seekPageStart(pageID))

FreeListPointer(id) == Seek("Free", id, freeListPointer(id))

NextSeek ==
    \/ \E pageID \in WidePageIDs : SeekPageStart(pageID)
    \/ \E id \in WidePageIDs : FreeListPointer(id)

SpecSeek == InitSeek /\ [][NextSeek]_vars

\* C21: the byte offset Load and Write seek to and the free-list pointer Free
\* stores are the product PageID * PageSize: a multiple of PageSize whose
\* quotient by PageSize is the PageID.  So no PageID other than 0 has
\* address 0, and two different PageIDs have different addresses.
C21_AddressIsProduct ==
    /\ \A i \in DOMAIN seeks :
          /\ seeks[i].off % PageSize = 0
          /\ seeks[i].off \div PageSize = seeks[i].id
          /\ seeks[i].id # 0 => seeks[i].off # 0
    /\ \A i, j \in DOMAIN seeks :
          seeks[i].id # seeks[j].id => seeks[i].off # seeks[j].off

-----------------------------------------------------------------------------
(* The pages Allocate hands out *)

\* the histories in which Free is called on allocated pages only: Allocate,
\* Free of a page that Allocate returned and that was not freed since, and
\* Release of any page
NextOwned ==
    \/ DoAllocate(MaxOwnedCalls)
    \/ \E id \in PageIDs : id \in owned.pages /\ DoFree(id, MaxOwnedCalls)
    \/ \E pageID \in PageIDs : DoRelease(pageID, MaxOwnedCalls)

SpecOwned == Init /\ [][NextOwned]_vars

\* C22: while every Free call so far was given a page that Allocate had
\* returned and that had not been freed since, an Allocate call that
\* succeeds returns neither PageID 0 nor a page that is allocated at the
\* time of the call.
C22_AllocateReturnsUnownedPage ==
    [][(ret'.op = "Allocate" /\ ret'.err = nil /\ calls' # calls /\ owned.ok) =>
          /\ ret'.val # 0
          /\ ret'.val \notin owned.pages]_vars

-----------------------------------------------------------------------------
(* Concurrent Allocate calls *)

\* goroutine p returns from Allocate in this step
AllocateReturns(p) ==
    /\ procs[p].pc \in {"AF257", "AE278"}
    /\ procs[p].cs
    /\ procs'[p].pc = "idle"

\* no goroutine is inside a call
Quiescent == ~panicked /\ \A p \in Procs : procs[p].pc = "idle"

\* C23: while every Free call was given an allocated page, an Allocate call
\* that runs concurrently with others returns a page that no other call
\* holds, and once all calls have returned the size of the store is its
\* initial size plus the number of Allocate calls that grew the file.
C23_ConcurrentAllocateDistinct ==
    /\ [][\A p \in Procs :
             (AllocateReturns(p) /\ ret'.err = nil /\ owned.ok) =>
                 ret'.val \notin owned.pages]_vars
    /\ []((Quiescent /\ owned.ok) => header.size = owned.size)

-----------------------------------------------------------------------------
(* The cache slots *)

\* the resident PageIDs that the lookup table maps to slot
HeldBy(slot) == {pageID \in DOMAIN lookup : lookup[pageID] = slot}

\* the positions of slot in the free-slot list
FreePositions(slot) ==
    {i \in 1..freeList.size : FLContents(freeList)[i] = slot}

\* C24: after any sequence of PageStore operations no two resident PageIDs
\* share a cache slot, every slot from 1 to cacheCapacity - 1 is either the
\* slot of exactly one resident PageID or exactly once in the free-slot
\* list, and slot 0 is not in the free-slot list.
C24_SlotsAccounted ==
    ~panicked =>
        /\ \A slot \in Slots : Cardinality(HeldBy(slot)) <= 1
        /\ \A slot \in Slots \ {0} :
              \/ Cardinality(HeldBy(slot)) = 1 /\ FreePositions(slot) = {}
              \/ HeldBy(slot) = {} /\ Cardinality(FreePositions(slot)) = 1
        /\ FreePositions(0) = {}

=============================================================================
